---------------------------- MODULE Spec2Model ----------------------------
(***************************************************************************)
(* Moving-least-squares point deformation (moving-least-squares/src/lib.rs)*)
(* and the reverse image warpers built on it                               *)
(* (moving-least-squares-image/src/lib.rs, interpolation.rs).              *)
(*                                                                         *)
(* The code computes in IEEE-754 binary32 (Rust f32) and in u32.  Both are *)
(* modelled bit-exactly: an f32 is a record [cls, sgn, exp, man] and every *)
(* arithmetic operator rounds to nearest, ties to even, with subnormals,   *)
(* signed zeros, infinities and NaN.  A u32 is held as a two's-complement  *)
(* integer in -2^31 .. 2^31-1 (a negative n stands for 2^32 + n).          *)
(***************************************************************************)
EXTENDS Integers, Sequences, FiniteSets, TLC

(***************************************************************************)
(* binary32                                                                *)
(***************************************************************************)

\* Bits of the significand, hidden bit included.
MantBits == 24
\* Exponent of the unit in the last place of the smallest subnormal.
MinExp == -149
\* Exponent of the unit in the last place of the largest finite value.
MaxExp == 104

Pow2(n) == 2 ^ n

RECURSIVE BitLen(_)
BitLen(m) ==
    IF m = 0 THEN 0
    ELSE IF m >= 256 THEN 8 + BitLen(m \div 256)
    ELSE IF m >= 16 THEN 4 + BitLen(m \div 16)
    ELSE IF m >= 4 THEN 2 + BitLen(m \div 4)
    ELSE IF m >= 2 THEN 2 ELSE 1

Max(a, b) == IF a >= b THEN a ELSE b
Min(a, b) == IF a <= b THEN a ELSE b
Abs(a) == IF a < 0 THEN -a ELSE a

\* A finite value is (-1)^sgn * man * 2^exp; a normal one has
\* 2^23 <= man < 2^24, a subnormal or zero has exp = MinExp and man < 2^23.
Fin(s, e, m) == [cls |-> "fin", sgn |-> s, exp |-> e, man |-> m]
Zero(s) == Fin(s, MinExp, 0)
Inf(s) == [cls |-> "inf", sgn |-> s, exp |-> 0, man |-> 0]
NaN == [cls |-> "nan", sgn |-> 0, exp |-> 0, man |-> 0]

is_nan(a) == a.cls = "nan"
is_infinite(a) == a.cls = "inf"
is_finite(a) == a.cls = "fin"
IsZero(a) == a.cls = "fin" /\ a.man = 0
Xor(s, t) == IF s = t THEN 0 ELSE 1

\* Sets the lowest bit of m: the mark that non-zero bits were dropped below it.
Jam(m, lost) == IF lost /\ m % 2 = 0 THEN m + 1 ELSE m

\* The value (-1)^s * q * 2^e once q is an integer of at most 24 bits, or
\* exactly 2^24 after a rounding carry.
Pack(s, e, q) ==
    IF q = 0 THEN Zero(s)
    ELSE IF q = Pow2(MantBits)
         THEN IF e + 1 > MaxExp THEN Inf(s) ELSE Fin(s, e + 1, Pow2(MantBits - 1))
    ELSE IF e > MaxExp THEN Inf(s)
    ELSE Fin(s, e, q)

\* Quotient q and remainder r of the significand by 2 * half: up when the
\* remainder is above the half, or at the half with q odd.
RoundQuot(s, e, q, r, half) ==
    Pack(s, e, IF r > half \/ (r = half /\ q % 2 = 1) THEN q + 1 ELSE q)

\* Drops the k lowest bits of M (k <= 0: none to drop).
RoundShift(s, M, E, k) ==
    IF k <= 0
    THEN IF E + k > MaxExp THEN Inf(s) ELSE Fin(s, E + k, M * Pow2(-k))
    ELSE IF k > 30 THEN Zero(s)
    ELSE RoundQuot(s, E + k, M \div Pow2(k), M % Pow2(k), Pow2(k - 1))

\* The binary32 nearest to (-1)^s * M * 2^E, ties to even.  0 <= M < 2^31; when
\* M carries a jammed bit it has at least 26 bits, so the jam is never the
\* rounding bit itself.
Round(s, M, E) ==
    IF M = 0 THEN Zero(s)
    ELSE RoundShift(s, M, E, Max(BitLen(M) - MantBits, MinExp - E))

\* -a
f32_neg(a) == IF a.cls = "nan" THEN NaN ELSE [a EXCEPT !.sgn = 1 - a.sgn]

\* The signed sum S of the aligned significands, rounded.
AddRound(S, e) ==
    IF S = 0 THEN Zero(0) ELSE Round(IF S < 0 THEN 1 ELSE 0, Abs(S), e)

\* x + y for finite non-zero x, y with x.exp >= y.exp and d = x.exp - y.exp:
\* three guard bits, the bits of y shifted out below them jammed.
AddAligned(x, y, d) ==
    AddRound((IF x.sgn = 1 THEN -1 ELSE 1) * (x.man * 8)
             + (IF y.sgn = 1 THEN -1 ELSE 1)
               * (IF d >= 27 THEN 1
                  ELSE Jam((y.man * 8) \div Pow2(d), (y.man * 8) % Pow2(d) # 0)),
             x.exp - 3)

\* a + b
f32_add(a, b) ==
    IF a.cls = "nan" \/ b.cls = "nan" THEN NaN
    ELSE IF a.cls = "inf"
         THEN IF b.cls = "inf" /\ b.sgn # a.sgn THEN NaN ELSE a
    ELSE IF b.cls = "inf" THEN b
    ELSE IF a.man = 0 /\ b.man = 0
         THEN Zero(IF a.sgn = 1 /\ b.sgn = 1 THEN 1 ELSE 0)
    ELSE IF a.man = 0 THEN b
    ELSE IF b.man = 0 THEN a
    ELSE IF a.exp >= b.exp THEN AddAligned(a, b, a.exp - b.exp)
    ELSE AddAligned(b, a, b.exp - a.exp)

\* a - b
f32_sub(a, b) == f32_add(a, f32_neg(b))

\* The 48-bit product in two halves, H * 2^24 + Ll, reduced to at most 30 bits
\* with the sh dropped bits jammed, then rounded.
MulRound(s, H, Ll, e, sh) ==
    Round(s, Jam(H * Pow2(24 - sh) + (Ll \div Pow2(sh)), Ll % Pow2(sh) # 0), e + sh)

MulHalves(s, H, L, e) ==
    MulRound(s, H + (L \div 16777216), L % 16777216, e,
             Max(BitLen(H + (L \div 16777216)) - 6, 0))

\* The product of two significands from their 12-bit limbs.
MulLimbs(s, a1, a0, b1, b0, e) ==
    MulHalves(s,
              a1 * b1 + ((a1 * b0 + a0 * b1) \div 4096),
              a0 * b0 + ((a1 * b0 + a0 * b1) % 4096) * 4096,
              e)

\* a * b
f32_mul(a, b) ==
    IF a.cls = "nan" \/ b.cls = "nan" THEN NaN
    ELSE IF a.cls = "inf" \/ b.cls = "inf"
         THEN IF IsZero(a) \/ IsZero(b) THEN NaN ELSE Inf(Xor(a.sgn, b.sgn))
    ELSE IF a.man = 0 \/ b.man = 0 THEN Zero(Xor(a.sgn, b.sgn))
    ELSE MulLimbs(Xor(a.sgn, b.sgn), a.man \div 4096, a.man % 4096,
                  b.man \div 4096, b.man % 4096, a.exp + b.exp)

\* The significand of a finite non-zero value shifted up by sh bits, with its
\* exponent: <<man, exp>>.
Shifted(a, sh) == <<a.man * Pow2(sh), a.exp - sh>>

\* The same with the significand brought to exactly 24 bits.
Normalised(a) == Shifted(a, MantBits - BitLen(a.man))

\* One step of the long division by mb that yields `bits` more quotient bits.
DivStep(qr, mb, bits) ==
    <<qr[1] * Pow2(bits) + ((qr[2] * Pow2(bits)) \div mb),
      (qr[2] * Pow2(bits)) % mb>>

\* 27 fraction bits of ma / mb and the remainder: <<quotient, remainder>>.
LongDiv(ma, mb) ==
    DivStep(DivStep(DivStep(DivStep(DivStep(<<ma \div mb, ma % mb>>,
        mb, 6), mb, 6), mb, 6), mb, 6), mb, 3)

\* Rounds a quotient or root whose remainder tells whether bits were dropped.
RoundJammed(s, qr, e) == Round(s, Jam(qr[1], qr[2] # 0), e)

DivNormalised(s, na, nb) ==
    RoundJammed(s, LongDiv(na[1], nb[1]), na[2] - nb[2] - 27)

\* a / b
f32_div(a, b) ==
    IF a.cls = "nan" \/ b.cls = "nan" THEN NaN
    ELSE IF a.cls = "inf"
         THEN IF b.cls = "inf" THEN NaN ELSE Inf(Xor(a.sgn, b.sgn))
    ELSE IF b.cls = "inf" THEN Zero(Xor(a.sgn, b.sgn))
    ELSE IF b.man = 0
         THEN IF a.man = 0 THEN NaN ELSE Inf(Xor(a.sgn, b.sgn))
    ELSE IF a.man = 0 THEN Zero(Xor(a.sgn, b.sgn))
    ELSE DivNormalised(Xor(a.sgn, b.sgn), Normalised(a), Normalised(b))

\* Digit-by-digit square root: `n` more pairs of radicand bits, the pairs of
\* `top` first (highest pair first, `pairs` of them), zeros after.
RECURSIVE SqrtDigits(_, _, _, _, _)
SqrtDigits(q, r, top, pairs, n) ==
    IF n = 0 THEN <<q, r>>
    ELSE
      LET p == IF pairs > 0 THEN (top \div Pow2(2 * (pairs - 1))) % 4 ELSE 0
          r1 == 4 * r + p
          t == 4 * q + 1
      IN  IF r1 >= t
          THEN SqrtDigits(2 * q + 1, r1 - t, top, Max(pairs - 1, 0), n - 1)
          ELSE SqrtDigits(2 * q, r1, top, Max(pairs - 1, 0), n - 1)

\* The root of man * 2^exp for a 24-bit man: the exponent made even first.
SqrtNormalised(na) ==
    RoundJammed(0,
                SqrtDigits(0, 0, IF na[2] % 2 # 0 THEN 2 * na[1] ELSE na[1], 13, 28),
                (na[2] \div 2) - 15)

\* a.sqrt()
f32_sqrt(a) ==
    IF a.cls = "nan" THEN NaN
    ELSE IF a.cls = "fin" /\ a.man = 0 THEN a
    ELSE IF a.sgn = 1 THEN NaN
    ELSE IF a.cls = "inf" THEN a
    ELSE SqrtNormalised(Normalised(a))

\* a.floor()
f32_floor(a) ==
    IF a.cls # "fin" \/ a.man = 0 \/ a.exp >= 0 THEN a
    ELSE
      LET k == -a.exp
          q == IF k >= MantBits THEN 0 ELSE a.man \div Pow2(k)
          frac == IF k >= MantBits THEN TRUE ELSE a.man % Pow2(k) # 0
          n == IF a.sgn = 1 /\ frac THEN q + 1 ELSE q
      IN  Round(a.sgn, n, 0)

\* Order of two finite values: -1, 0 or 1.
Cmp(a, b) ==
    LET sa == IF a.man = 0 THEN 0 ELSE IF a.sgn = 1 THEN -1 ELSE 1
        sb == IF b.man = 0 THEN 0 ELSE IF b.sgn = 1 THEN -1 ELSE 1
        mag == IF a.exp # b.exp
               THEN (IF a.exp < b.exp THEN -1 ELSE 1)
               ELSE IF a.man < b.man THEN -1
               ELSE IF a.man > b.man THEN 1 ELSE 0
    IN  IF sa # sb THEN (IF sa < sb THEN -1 ELSE 1)
        ELSE IF sa = 0 THEN 0
        ELSE sa * mag

\* a < b
f32_lt(a, b) ==
    IF a.cls = "nan" \/ b.cls = "nan" THEN FALSE
    ELSE IF a.cls = "inf" THEN a.sgn = 1 /\ ~(b.cls = "inf" /\ b.sgn = 1)
    ELSE IF b.cls = "inf" THEN b.sgn = 0
    ELSE Cmp(a, b) < 0

\* a == b
f32_eq(a, b) ==
    IF a.cls = "nan" \/ b.cls = "nan" THEN FALSE
    ELSE IF a.cls = "inf" \/ b.cls = "inf" THEN a = b
    ELSE Cmp(a, b) = 0

\* a >= b
f32_ge(a, b) == f32_lt(b, a) \/ f32_eq(a, b)

\* a <= b
f32_le(a, b) == f32_ge(b, a)


\* f32::max: the set of the values a build may return.  The other operand
\* when one is NaN; either operand when the two compare equal, which tells
\* apart only 0.0 and -0.0.
f32_max(a, b) ==
    IF a.cls = "nan" THEN {b}
    ELSE IF b.cls = "nan" THEN {a}
    ELSE IF f32_lt(a, b) THEN {b}
    ELSE IF f32_lt(b, a) THEN {a}
    ELSE {a, b}

\* f32::min: the set of the values a build may return, as for f32::max.
f32_min(a, b) ==
    IF a.cls = "nan" THEN {b}
    ELSE IF b.cls = "nan" THEN {a}
    ELSE IF f32_lt(b, a) THEN {b}
    ELSE IF f32_lt(a, b) THEN {a}
    ELSE {a, b}

\* f32::round: to the nearest integer, halves away from zero.
f32_round(a) ==
    IF a.cls # "fin" \/ a.man = 0 \/ a.exp >= 0 THEN a
    ELSE
      LET k == -a.exp
          q == IF k > MantBits THEN 0 ELSE a.man \div Pow2(k)
          r == IF k > MantBits THEN 0 ELSE a.man % Pow2(k)
          n == IF k <= MantBits /\ 2 * r >= Pow2(k) THEN q + 1 ELSE q
      IN  Round(a.sgn, n, 0)

\* The f32 of an integer literal or of a small signed integer.
F(n) == Round(IF n < 0 THEN 1 ELSE 0, Abs(n), 0)

\* The f32 nearest to the fraction n / d (the value of a decimal literal).
FRat(n, d) == f32_div(F(n), F(d))

\* `n as f32` for a u32 n (two's complement: a negative n stands for 2^32 + n).
u32_as_f32(n) ==
    IF n >= 0 THEN
      IF n < Pow2(30) THEN Round(0, n, 0)
      ELSE Round(0, Jam(n \div 4, n % 4 # 0), 2)
    ELSE
      LET j == -(n + 1)
          hi == 65535 - (j \div 65536)
          lo == 65535 - (j % 65536)
      IN  Round(0, Jam(hi * 1024 + (lo \div 64), lo % 64 # 0), 6)

\* `a as u32`: truncating, saturating, NaN to 0; the result in two's complement.
f32_as_u32(a) ==
    IF a.cls = "nan" THEN 0
    ELSE IF a.sgn = 1 THEN 0
    ELSE IF a.cls = "inf" THEN -1
    ELSE IF a.exp > 8 THEN -1
    ELSE IF a.exp <= -MantBits THEN 0
    ELSE IF a.exp < 0 THEN a.man \div Pow2(-a.exp)
    ELSE IF a.exp < 8 THEN a.man * Pow2(a.exp)
    ELSE LET hi == a.man \div 256
             lo == (a.man % 256) * 256
         IN  (hi - 65536) * 65536 + lo

(***************************************************************************)
(* 2D points and 2x2 matrices: moving-least-squares/src/lib.rs 268-455     *)
(***************************************************************************)

\* Point { x, y } from the tuple (x, y).
PointFrom(t) == [x |-> t[1], y |-> t[2]]

\* The tuple (x, y) of Point { x, y }.
PointInto(p) == <<p.x, p.y>>

PointZero == [x |-> Zero(0), y |-> Zero(0)]

dot(a, b) == f32_add(f32_mul(a.x, b.x), f32_mul(a.y, b.y))

sqr_norm(a) == f32_add(f32_mul(a.x, a.x), f32_mul(a.y, a.y))

times_transpose(a, b) ==
    [m11 |-> f32_mul(a.x, b.x), m21 |-> f32_mul(a.y, b.x),
     m12 |-> f32_mul(a.x, b.y), m22 |-> f32_mul(a.y, b.y)]

transpose_mul(a, m) ==
    [x |-> f32_add(f32_mul(m.m11, a.x), f32_mul(m.m21, a.y)),
     y |-> f32_add(f32_mul(m.m12, a.x), f32_mul(m.m22, a.y))]

PointAdd(a, b) == [x |-> f32_add(a.x, b.x), y |-> f32_add(a.y, b.y)]

PointSub(a, b) == [x |-> f32_sub(a.x, b.x), y |-> f32_sub(a.y, b.y)]

PointScale(k, a) == [x |-> f32_mul(k, a.x), y |-> f32_mul(k, a.y)]

Mat2Zero == [m11 |-> Zero(0), m21 |-> Zero(0), m12 |-> Zero(0), m22 |-> Zero(0)]

det(m) == f32_sub(f32_mul(m.m11, m.m22), f32_mul(m.m21, m.m12))

Mat2Add(a, b) ==
    [m11 |-> f32_add(a.m11, b.m11), m21 |-> f32_add(a.m21, b.m21),
     m12 |-> f32_add(a.m12, b.m12), m22 |-> f32_add(a.m22, b.m22)]

Mat2Scale(k, a) ==
    [m11 |-> f32_mul(k, a.m11), m21 |-> f32_mul(k, a.m21),
     m12 |-> f32_mul(k, a.m12), m22 |-> f32_mul(k, a.m22)]

Mat2Mul(a, b) ==
    [m11 |-> f32_add(f32_mul(a.m11, b.m11), f32_mul(a.m12, b.m21)),
     m21 |-> f32_add(f32_mul(a.m21, b.m11), f32_mul(a.m22, b.m21)),
     m12 |-> f32_add(f32_mul(a.m11, b.m12), f32_mul(a.m12, b.m22)),
     m22 |-> f32_add(f32_mul(a.m21, b.m12), f32_mul(a.m22, b.m22))]

inv(m) ==
    Mat2Scale(f32_div(F(1), det(m)),
              [m11 |-> m.m22, m21 |-> f32_neg(m.m21),
               m12 |-> f32_neg(m.m12), m22 |-> m.m11])

\* Iterator::sum of f32: a left fold from -0.0, the identity of f32 addition
\* in the standard library the repository is built with (the sum of no
\* terms is -0.0).
RECURSIVE SumF32From(_, _, _)
SumF32From(s, i, acc) ==
    IF i > Len(s) THEN acc ELSE SumF32From(s, i + 1, f32_add(acc, s[i]))
SumF32(s) == SumF32From(s, 1, Zero(1))

\* impl Sum for Point: a left fold from Point::zero().
RECURSIVE SumPointFrom(_, _, _)
SumPointFrom(s, i, acc) ==
    IF i > Len(s) THEN acc ELSE SumPointFrom(s, i + 1, PointAdd(acc, s[i]))
SumPoint(s) == SumPointFrom(s, 1, PointZero)

\* impl Sum for Mat2: a left fold from Mat2::zero().
RECURSIVE SumMat2From(_, _, _)
SumMat2From(s, i, acc) ==
    IF i > Len(s) THEN acc ELSE SumMat2From(s, i + 1, Mat2Add(acc, s[i]))
SumMat2(s) == SumMat2From(s, 1, Mat2Zero)

(***************************************************************************)
(* The point solver: moving-least-squares/src/lib.rs 15-266                *)
(***************************************************************************)

\* What a call produces: a value, or a panic with the place that raised it.
Ok(v) == [tag |-> "ok", val |-> v, why |-> ""]
Panicked(why) == [tag |-> "panic", val |-> <<>>, why |-> why]

\* An Option: a value, or none.
Some(v) == [tag |-> "some", val |-> v, why |-> ""]
None == [tag |-> "none", val |-> <<>>, why |-> ""]

\* lines 21-26: w_i = 1 / |p_i - v|^2 for every control point.
Weights(controls_p, v) ==
    [i \in 1..Len(controls_p) |->
        f32_div(F(1), sqr_norm(PointSub(PointFrom(controls_p[i]), v)))]

\* Iterator::rposition in the place of position: the last infinite weight.
PositionInfiniteLast(w_all) ==
    IF \E i \in 1..Len(w_all) : is_infinite(w_all[i])
    THEN CHOOSE i \in 1..Len(w_all) :
            /\ is_infinite(w_all[i])
            /\ \A j \in (i + 1)..Len(w_all) : ~is_infinite(w_all[j])
    ELSE 0

\* Iterator::position: the first index whose weight is infinite, 0 for None.
PositionInfinite(w_all) ==
    IF \E i \in 1..Len(w_all) : is_infinite(w_all[i])
    THEN CHOOSE i \in 1..Len(w_all) :
            /\ is_infinite(w_all[i])
            /\ \A j \in 1..(i - 1) : ~is_infinite(w_all[j])
    ELSE 0

\* The same branch returning the destination of the last infinite weight.
DegenerateLast(w_all, controls_q) ==
    LET index == PositionInfiniteLast(w_all)
    IN  IF index = 0
        THEN Panicked("There is an infinite sum of the weights but none is infinite")
        ELSE IF index > Len(controls_q)
        THEN Panicked("index out of bounds")
        ELSE Ok(controls_q[index])

\* lines 28-36: the value returned when the sum of the weights is infinite.
Degenerate(w_all, controls_q) ==
    LET index == PositionInfinite(w_all)
    IN  IF index = 0
        THEN Panicked("There is an infinite sum of the weights but none is infinite")
        ELSE IF index > Len(controls_q)
        THEN Panicked("index out of bounds")
        ELSE Ok(controls_q[index])

\* The weighted sum of the control points with the division by w_sum left out.
CentroidUnnormalised(w_all, w_sum, controls) ==
    SumPoint([i \in 1..Min(Len(w_all), Len(controls)) |->
                PointScale(w_all[i], PointFrom(controls[i]))])

\* lines 39-52: (1 / w_sum) * sum of w_i * c_i over zip(w_all, controls).
Centroid(w_all, w_sum, controls) ==
    LET n == Min(Len(w_all), Len(controls))
    IN  PointScale(f32_div(F(1), w_sum),
                   SumPoint([i \in 1..n |->
                                PointScale(w_all[i], PointFrom(controls[i]))]))

\* lines 55-58: c_i - c* for every control point.
Hat(controls, star) ==
    [i \in 1..Len(controls) |-> PointSub(PointFrom(controls[i]), star)]

\* The term with m22 of q_mat left as qi.x, not negated.
SimilarityTermSheared(wi, pi, qi) ==
    LET p_mat == [m11 |-> pi.x, m12 |-> pi.y, m21 |-> pi.y, m22 |-> f32_neg(pi.x)]
        q_mat == [m11 |-> qi.x, m21 |-> qi.y, m12 |-> qi.y, m22 |-> qi.x]
    IN  Mat2Mul(Mat2Scale(wi, p_mat), q_mat)

\* lines 149-161: w_i * A(p_i) * A(q_i), multiplied left to right.
SimilarityTerm(wi, pi, qi) ==
    LET p_mat == [m11 |-> pi.x, m12 |-> pi.y, m21 |-> pi.y, m22 |-> f32_neg(pi.x)]
        q_mat == [m11 |-> qi.x, m21 |-> qi.y, m12 |-> qi.y, m22 |-> f32_neg(qi.x)]
    IN  Mat2Mul(Mat2Scale(wi, p_mat), q_mat)

\* lines 144-163: M of eq. 6 before its normalisation.
SimilarityM(w_all, p_hat, q_hat) ==
    LET n == Min(Len(w_all), Min(Len(p_hat), Len(q_hat)))
    IN  SumMat2([i \in 1..n |-> SimilarityTerm(w_all[i], p_hat[i], q_hat[i])])

\* lines 60-64: mp = sum of w_i * p_hat_i^T p_hat_i.
AffineMp(w_all, p_hat) ==
    SumMat2([i \in 1..Len(p_hat) |->
                Mat2Scale(w_all[i], times_transpose(p_hat[i], p_hat[i]))])

\* mq with the weight of each term left out.
AffineMqUnweighted(w_all, p_hat, controls_q, q_star) ==
    SumMat2([i \in 1..Min(Len(p_hat), Len(controls_q)) |->
                times_transpose(p_hat[i],
                                PointSub(PointFrom(controls_q[i]), q_star))])

\* lines 66-74: mq = sum of (w_i * p_hat_i)^T (q_i - q*) over the zip of
\* w_all, p_hat and controls_q.
AffineMq(w_all, p_hat, controls_q, q_star) ==
    SumMat2([i \in 1..Min(Len(p_hat), Len(controls_q)) |->
                times_transpose(PointScale(w_all[i], p_hat[i]),
                                PointSub(PointFrom(controls_q[i]), q_star))])

\* line 77: (v - p*) * mp^-1 * mq + q*.
AffineMoved(v, p_star, q_star, mp, mq) ==
    Ok(PointInto(PointAdd(
        transpose_mul(transpose_mul(PointSub(v, p_star), inv(mp)), mq),
        q_star)))

\* lines 55-77, from the centroids on.
AffineCentred(controls_p, controls_q, v, w_all, p_star, q_star, p_hat) ==
    AffineMoved(v, p_star, q_star,
                AffineMp(w_all, p_hat),
                AffineMq(w_all, p_hat, controls_q, q_star))

\* lines 27-77, from the weights and their sum on.
AffineWeighted(controls_p, controls_q, v, w_all, w_sum) ==
    IF is_infinite(w_sum) THEN Degenerate(w_all, controls_q)
    ELSE AffineCentred(controls_p, controls_q, v, w_all,
                       Centroid(w_all, w_sum, controls_p),
                       Centroid(w_all, w_sum, controls_q),
                       Hat(controls_p, Centroid(w_all, w_sum, controls_p)))

deform_affine(controls_p, controls_q, point) ==
    AffineWeighted(controls_p, controls_q, PointFrom(point),
                   Weights(controls_p, PointFrom(point)),
                   SumF32(Weights(controls_p, PointFrom(point))))

\* lines 137-141: mu_s = sum of w_i * |p_hat_i|^2.
MuS(w_all, p_hat) ==
    SumF32([i \in 1..Len(p_hat) |-> f32_mul(w_all[i], sqr_norm(p_hat[i]))])

\* lines 164 and 262: m = (1.0 / mu) * m.
NormalisedM(mu, m_sum) == Mat2Scale(f32_div(F(1), mu), m_sum)

\* lines 164-167 and 262-265: M = sum / mu, then (v - p*) * M + q*.
Moved(v, p_star, q_star, mu, m_sum) ==
    Ok(PointInto(PointAdd(
        transpose_mul(PointSub(v, p_star), NormalisedM(mu, m_sum)),
        q_star)))

\* lines 130-167, from the centroids on.
SimilarityCentred(v, w_all, p_star, q_star, p_hat, q_hat) ==
    Moved(v, p_star, q_star, MuS(w_all, p_hat), SimilarityM(w_all, p_hat, q_hat))

\* lines 97-167, from the weights and their sum on.
SimilarityWeighted(controls_p, controls_q, v, w_all, w_sum) ==
    IF is_infinite(w_sum) THEN Degenerate(w_all, controls_q)
    ELSE SimilarityCentred(v, w_all,
                           Centroid(w_all, w_sum, controls_p),
                           Centroid(w_all, w_sum, controls_q),
                           Hat(controls_p, Centroid(w_all, w_sum, controls_p)),
                           Hat(controls_q, Centroid(w_all, w_sum, controls_q)))

deform_similarity(controls_p, controls_q, point) ==
    SimilarityWeighted(controls_p, controls_q, PointFrom(point),
                       Weights(controls_p, PointFrom(point)),
                       SumF32(Weights(controls_p, PointFrom(point))))

\* lines 230-236: w_i * (q_hat_i . p_hat_i, q_hat_i . p_hat_i_perp).
MuRTerm(wi, pi, qi) ==
    [x |-> f32_mul(wi, dot(qi, pi)),
     y |-> f32_mul(wi, dot(qi, [x |-> f32_neg(pi.y), y |-> pi.x]))]

\* mu_r with the square root of line 239 left out.
MuRSquared(w_all, p_hat, q_hat) ==
    sqr_norm(SumPoint(
        [i \in 1..Min(Len(w_all), Min(Len(p_hat), Len(q_hat))) |->
            MuRTerm(w_all[i], p_hat[i], q_hat[i])]))

\* lines 227-239: mu_r, the norm of the sum of the terms above.
MuR(w_all, p_hat, q_hat) ==
    f32_sqrt(sqr_norm(SumPoint(
        [i \in 1..Min(Len(w_all), Min(Len(p_hat), Len(q_hat))) |->
            MuRTerm(w_all[i], p_hat[i], q_hat[i])])))

\* lines 220-265, from the centroids on.
RigidCentred(v, w_all, p_star, q_star, p_hat, q_hat) ==
    Moved(v, p_star, q_star, MuR(w_all, p_hat, q_hat),
          SimilarityM(w_all, p_hat, q_hat))

\* lines 187-265, from the weights and their sum on.
RigidWeighted(controls_p, controls_q, v, w_all, w_sum) ==
    IF is_infinite(w_sum) THEN Degenerate(w_all, controls_q)
    ELSE RigidCentred(v, w_all,
                      Centroid(w_all, w_sum, controls_p),
                      Centroid(w_all, w_sum, controls_q),
                      Hat(controls_p, Centroid(w_all, w_sum, controls_p)),
                      Hat(controls_q, Centroid(w_all, w_sum, controls_q)))

deform_rigid(controls_p, controls_q, point) ==
    RigidWeighted(controls_p, controls_q, PointFrom(point),
                  Weights(controls_p, PointFrom(point)),
                  SumF32(Weights(controls_p, PointFrom(point))))

\* The locals of lines 137-164 and 227-262 as a record.
MatrixLocals(mu, m_sum) == [mu |-> mu, m_sum |-> m_sum, m |-> NormalisedM(mu, m_sum)]

\* lines 137-164 and 227-262: mu and the matrix m of line 164 (deform_similarity)
\* or 262 (deform_rigid), with the sum it is normalised from.
MatrixCentred(kind, w_all, p_hat, q_hat) ==
    MatrixLocals(IF kind = "similarity" THEN MuS(w_all, p_hat)
                 ELSE MuR(w_all, p_hat, q_hat),
                 SimilarityM(w_all, p_hat, q_hat))

\* None when the call returns from the infinite w_sum branch, before any
\* matrix is computed.
MatrixWeighted(kind, controls_p, controls_q, w_all, w_sum) ==
    IF is_infinite(w_sum) THEN None
    ELSE Some(MatrixCentred(kind, w_all,
                            Hat(controls_p, Centroid(w_all, w_sum, controls_p)),
                            Hat(controls_q, Centroid(w_all, w_sum, controls_q))))

\* The locals mu, m (before and after line 164 / 262) of a call of
\* deform_similarity or deform_rigid.
local_matrix(kind, controls_p, controls_q, point) ==
    MatrixWeighted(kind, controls_p, controls_q,
                   Weights(controls_p, PointFrom(point)),
                   SumF32(Weights(controls_p, PointFrom(point))))

\* The deform function a caller passes by name.
deform(kind, controls_p, controls_q, point) ==
    CASE kind = "affine" -> deform_affine(controls_p, controls_q, point)
      [] kind = "similarity" -> deform_similarity(controls_p, controls_q, point)
      [] kind = "rigid" -> deform_rigid(controls_p, controls_q, point)

(***************************************************************************)
(* u32 arithmetic.  A u32 is held in two's complement (a negative n stands *)
(* for 2^32 + n), so the values the code meets in practice are themselves. *)
(* An overflow panics in a build with overflow checks (debug) and wraps in *)
(* one without (release); a division by zero panics in both.               *)
(***************************************************************************)

Hi16(n) == (n \div 65536) % 65536
Lo16(n) == n % 65536
FromLimbs(hi, lo) ==
    IF hi >= 32768 THEN (hi - 65536) * 65536 + lo ELSE hi * 65536 + lo

\* a < b as unsigned values.
u32_lt(a, b) ==
    \/ Hi16(a) < Hi16(b)
    \/ Hi16(a) = Hi16(b) /\ Lo16(a) < Lo16(b)

u32_add(a, b, checks) ==
    LET lo == Lo16(a) + Lo16(b)
        hi == Hi16(a) + Hi16(b) + (lo \div 65536)
    IN  IF hi >= 65536 /\ checks
        THEN Panicked("attempt to add with overflow")
        ELSE Ok(FromLimbs(hi % 65536, lo % 65536))

u32_sub(a, b, checks) ==
    IF u32_lt(a, b) /\ checks
    THEN Panicked("attempt to subtract with overflow")
    ELSE LET lo == Lo16(a) - Lo16(b)
             hi == Hi16(a) - Hi16(b) + (lo \div 65536)
         IN  Ok(FromLimbs(hi % 65536, lo % 65536))

\* The 32-bit product of two 16-bit limbs, as <<high limb, low limb>>.
Mul16(a, b) ==
    LET t1 == a * (b % 256)
        t2 == a * (b \div 256)
        low == (t2 % 256) * 256 + t1
    IN  <<(t2 \div 256) + (low \div 65536), low % 65536>>

u32_mul(a, b, checks) ==
    LET ll == Mul16(Lo16(a), Lo16(b))
        lh == Mul16(Lo16(a), Hi16(b))
        hl == Mul16(Hi16(a), Lo16(b))
        hi == ll[1] + lh[2] + hl[2]
        over == \/ Hi16(a) # 0 /\ Hi16(b) # 0
                \/ lh[1] # 0 \/ hl[1] # 0
                \/ hi >= 65536
    IN  IF over /\ checks
        THEN Panicked("attempt to multiply with overflow")
        ELSE Ok(FromLimbs(hi % 65536, ll[2]))

\* Long division of the unsigned a by b, 0 < b < 2^31, one bit of a per step:
\* <<quotient, remainder>> after the `n` lowest bits of `bits` (highest first).
RECURSIVE DivBits(_, _, _, _, _)
DivBits(q, r, bits, n, b) ==
    IF n = 0 THEN <<q, r>>
    ELSE
      LET bit == (bits \div Pow2(n - 1)) % 2
          over == r - (b - r) + bit
      IN  IF over >= 0
          THEN DivBits(2 * q + 1, over, bits, n - 1, b)
          ELSE DivBits(2 * q, 2 * r + bit, bits, n - 1, b)

\* A division that yields 0 for a zero divisor.
u32_div_or_zero(a, b) ==
    IF b = 0 THEN Ok(0)
    ELSE IF a >= 0 /\ b > 0 THEN Ok(a \div b)
    ELSE IF b < 0 THEN Ok(IF u32_lt(a, b) THEN 0 ELSE 1)
    ELSE Ok(FromLimbs(DivBits(0, 0, Hi16(a), 16, b)[1],
                      DivBits(0, DivBits(0, 0, Hi16(a), 16, b)[2], Lo16(a), 16, b)[1]))

u32_div(a, b) ==
    IF b = 0 THEN Panicked("attempt to divide by zero")
    ELSE IF a >= 0 /\ b > 0 THEN Ok(a \div b)
    ELSE IF b < 0 THEN Ok(IF u32_lt(a, b) THEN 0 ELSE 1)
    ELSE
      LET top == DivBits(0, 0, Hi16(a), 16, b)
          low == DivBits(0, top[2], Lo16(a), 16, b)
      IN  Ok(FromLimbs(top[1], low[1]))

\* a % b on u32: what is left of a after the whole multiples of b.
u32_rem(a, b) ==
    IF b = 0 THEN Panicked("attempt to calculate the remainder with a divisor of zero")
    ELSE IF a >= 0 /\ b > 0 THEN Ok(a % b)
    ELSE Ok(u32_sub(a, u32_mul(u32_div(a, b).val, b, FALSE).val, FALSE).val)

(***************************************************************************)
(* Rasters and the pixel sampler: moving-least-squares-image/src/          *)
(* interpolation.rs.  An RgbImage is [width, height, data], data the       *)
(* row-major sequence of its pixels, a pixel the tuple <<r, g, b>> of u8.  *)
(***************************************************************************)

IsPanic(r) == r.tag = "panic"

\* The first panic among the results, evaluated in order; Ok(<<>>) without one.
RECURSIVE FirstPanicFrom(_, _)
FirstPanicFrom(rs, i) ==
    IF i > Len(rs) THEN Ok(<<>>)
    ELSE IF IsPanic(rs[i]) THEN rs[i] ELSE FirstPanicFrom(rs, i + 1)
FirstPanic(rs) == FirstPanicFrom(rs, 1)

\* ImageBuffer::get_pixel: panics outside the raster.
get_pixel(img, x, y) ==
    IF u32_lt(x, img.width) /\ u32_lt(y, img.height)
    THEN Ok(img.data[y * img.width + x + 1])
    ELSE Panicked("Image index out of bounds")

\* Rgb<u8>::into_vector.
into_vector(px) == [x |-> F(px[1]), y |-> F(px[2]), z |-> F(px[3])]

\* v.max(0.0).min(255.0).round() as u8, for every value max and min may
\* return.
Clamped(v) ==
    { f32_as_u32(f32_round(n)) :
        n \in UNION { f32_min(m, F(255)) : m \in f32_max(v, F(0)) } }

\* <u8 as CanLinearInterpolate<f32, u8>>::from_vector.  The zero that max
\* returns for v = -0.0 is 0 as u8 whatever its sign, so Clamped(v) has one
\* element.
from_vector_u8(v) == CHOOSE c \in Clamped(v) : TRUE

\* Rgb<u8>::from_vector.
from_vector(v) == <<from_vector_u8(v.x), from_vector_u8(v.y), from_vector_u8(v.z)>>

Vec3Add(a, b) ==
    [x |-> f32_add(a.x, b.x), y |-> f32_add(a.y, b.y), z |-> f32_add(a.z, b.z)]

Vec3Scale(k, a) ==
    [x |-> f32_mul(k, a.x), y |-> f32_mul(k, a.y), z |-> f32_mul(k, a.z)]

\* line 123, from `u < (width - 2) as f32` on: height - 2 is only evaluated
\* when the three tests before it hold.
InsideHeight(v, h2) ==
    IF IsPanic(h2) THEN h2 ELSE Ok(f32_lt(v, u32_as_f32(h2.val)))

InsideWidth(img, u, v, checks, w2) ==
    IF IsPanic(w2) THEN w2
    ELSE IF ~f32_lt(u, u32_as_f32(w2.val)) THEN Ok(FALSE)
    ELSE IF ~f32_ge(v, F(0)) THEN Ok(FALSE)
    ELSE InsideHeight(v, u32_sub(img.height, 2, checks))

\* line 123: whether (u, v) passes the inside test; a panic when a subtraction
\* it reaches overflows under overflow checks.  && evaluates its right operand
\* only when the left one holds.
Inside(img, u, v, checks) ==
    IF ~f32_ge(u, F(0)) THEN Ok(FALSE)
    ELSE InsideWidth(img, u, v, checks, u32_sub(img.width, 2, checks))

\* lines 135-138: the weighted sum of the four corner vectors.
Weighted(uv_00, uv_10, uv_01, uv_11, a, b, one_a, one_b) ==
    Vec3Add(Vec3Add(Vec3Add(
        Vec3Scale(f32_mul(one_b, one_a), uv_00),
        Vec3Scale(f32_mul(b, one_a), uv_01)),
        Vec3Scale(f32_mul(one_b, a), uv_10)),
        Vec3Scale(f32_mul(b, a), uv_11))

\* lines 131-139: the four pixel reads in the order of the code, then the blend.
InterpolatePixels(uv_00, uv_10, uv_01, uv_11, a, b) ==
    IF IsPanic(uv_00) THEN uv_00
    ELSE IF IsPanic(uv_10) THEN uv_10
    ELSE IF IsPanic(uv_01) THEN uv_01
    ELSE IF IsPanic(uv_11) THEN uv_11
    ELSE Some(from_vector(
            Weighted(into_vector(uv_00.val), into_vector(uv_10.val),
                     into_vector(uv_01.val), into_vector(uv_11.val),
                     a, b, f32_sub(F(1), a), f32_sub(F(1), b))))

\* lines 127-134: u_1 = u_0 + 1 and v_1 = v_0 + 1, then the reads.
InterpolateCorners(img, u_0, v_0, u_1, v_1, a, b) ==
    IF IsPanic(u_1) THEN u_1
    ELSE IF IsPanic(v_1) THEN v_1
    ELSE InterpolatePixels(get_pixel(img, u_0, v_0),
                           get_pixel(img, u_1.val, v_0),
                           get_pixel(img, u_0, v_1.val),
                           get_pixel(img, u_1.val, v_1.val),
                           a, b)

InterpolateAt(img, u_0, v_0, a, b, checks) ==
    InterpolateCorners(img, u_0, v_0,
                       u32_add(u_0, 1, checks), u32_add(v_0, 1, checks), a, b)

\* lines 124-139: the interpolated pixel of a coordinate inside.
Interpolate(img, x, y, u, v, checks) ==
    InterpolateAt(img, f32_as_u32(u), f32_as_u32(v),
                  f32_sub(x, u), f32_sub(y, v), checks)

BilinearInside(img, x, y, u, v, checks, inside) ==
    IF IsPanic(inside) THEN inside
    ELSE IF inside.val THEN Interpolate(img, x, y, u, v, checks)
    ELSE None

BilinearFloored(img, x, y, u, v, checks) ==
    BilinearInside(img, x, y, u, v, checks, Inside(img, u, v, checks))

\* bilinear(img, x, y): Some(pixel), None, or a panic.
bilinear(img, x, y, checks) ==
    BilinearFloored(img, x, y, f32_floor(x), f32_floor(y), checks)

(***************************************************************************)
(* The warpers: moving-least-squares-image/src/lib.rs                      *)
(***************************************************************************)

\* Rgb([0, 0, 0])
color_outside == <<0, 0, 0>>

\* Option::unwrap_or(color_outside) of a sample, panics passed on.
UnwrapOrOutside(sample) ==
    IF IsPanic(sample) THEN sample
    ELSE IF sample.tag = "some" THEN Ok(sample.val)
    ELSE Ok(color_outside)

\* The solver called with the control point roles as given, not swapped.
DenseMapForward(controls_src, controls_dst, kind, x, y) ==
    deform(kind, controls_src, controls_dst, <<u32_as_f32(x), u32_as_f32(y)>>)

\* lines 65: the source coordinate of destination pixel (x, y): the solver with
\* the destination control points as its source and the source ones as its
\* destination.
DenseMap(controls_src, controls_dst, kind, x, y) ==
    deform(kind, controls_dst, controls_src, <<u32_as_f32(x), u32_as_f32(y)>>)

\* line 67: the sample at a mapped coordinate, or the panic of the mapping.
Sampled(img, d, checks) ==
    IF IsPanic(d) THEN d
    ELSE UnwrapOrOutside(bilinear(img, d.val[1], d.val[2], checks))

\* lines 64-68: the closure of reverse_dense for pixel (x, y).
DensePixel(img, controls_src, controls_dst, kind, x, y, checks) ==
    Sampled(img, DenseMap(controls_src, controls_dst, kind, x, y), checks)

\* RgbImage::from_fn (lines 16-21) over the results px of the pixel closure in
\* row-major order: the raster, or the first panic.
rgb_image_from_fn(width, height, px) ==
    IF IsPanic(FirstPanic(px)) THEN FirstPanic(px)
    ELSE Ok([width |-> width, height |-> height,
             data |-> [i \in 1..Len(px) |-> px[i].val]])

\* lines 56-69 as one function of the arguments.
reverse_dense(img_src, controls_src, controls_dst, deform_function, checks) ==
    rgb_image_from_fn(img_src.width, img_src.height,
        [i \in 1..(img_src.width * img_src.height) |->
            DensePixel(img_src, controls_src, controls_dst, deform_function,
                       (i - 1) % img_src.width, (i - 1) \div img_src.width, checks)])

SubSizeQuot(quot, checks) ==
    IF IsPanic(quot) THEN quot ELSE u32_add(quot.val, 2, checks)

SubSizeLess(less, subresolution_factor, checks) ==
    IF IsPanic(less) THEN less
    ELSE SubSizeQuot(u32_div(less.val, subresolution_factor), checks)

\* The size with the quotient rounded up: ceil((dim - 1) / factor) + 2.
SubSizeCeil(dim, subresolution_factor, checks) ==
    IF IsPanic(u32_sub(dim, 1, checks)) THEN u32_sub(dim, 1, checks)
    ELSE IF subresolution_factor = 0 THEN Panicked("attempt to divide by zero")
    ELSE Ok((dim - 1 + subresolution_factor - 1) \div subresolution_factor + 2)

\* lines 100-101: (dim - 1) / subresolution_factor + 2.
SubSize(dim, subresolution_factor, checks) ==
    SubSizeLess(u32_sub(dim, 1, checks), subresolution_factor, checks)

\* line 106: y = (v * subresolution_factor) as f32, once per row of anchors.
AnchorRow(subresolution_factor, v, checks) ==
    u32_mul(v, subresolution_factor, checks)

AnchorAt(controls_src, controls_dst, kind, x, y) ==
    IF IsPanic(x) THEN x
    ELSE deform(kind, controls_dst, controls_src,
                <<u32_as_f32(x.val), u32_as_f32(y)>>)

\* lines 109-110: the anchor of column u in the row whose y is given.
Anchor(controls_src, controls_dst, kind, subresolution_factor, u, y, checks) ==
    AnchorAt(controls_src, controls_dst, kind,
             u32_mul(u, subresolution_factor, checks), y)

\* Indexing a Vec: panics past its end.  i is the 0-based index as usize.
Index(vec, i) ==
    IF i >= 0 /\ i < Len(vec) THEN Ok(vec[i + 1])
    ELSE Panicked("index out of bounds")

\* anchors[i][j]
Index2(rows, i, j) ==
    IF i >= 0 /\ i < Len(rows) THEN Index(rows[i + 1], j)
    ELSE Panicked("index out of bounds")

\* a * b of two results, the first panic passed on.
MulR(a, b, checks) ==
    IF IsPanic(a) THEN a
    ELSE IF IsPanic(b) THEN b
    ELSE u32_mul(a.val, b.val, checks)

\* lines 168-173: one coordinate of the blend of the four anchors.
WarpCoord(coef_tl, coef_tr, coef_bl, coef_br, area, tl, tr, bl, br) ==
    f32_div(
        f32_add(f32_add(f32_add(
            f32_mul(coef_tl, tl),
            f32_mul(coef_tr, tr)),
            f32_mul(coef_bl, bl)),
            f32_mul(coef_br, br)),
        area)

WarpBlend(bad, coef_tl, coef_tr, coef_bl, coef_br, area, corners_dst) ==
    IF IsPanic(bad) THEN bad
    ELSE Ok(<<WarpCoord(u32_as_f32(coef_tl.val), u32_as_f32(coef_tr.val),
                        u32_as_f32(coef_bl.val), u32_as_f32(coef_br.val),
                        u32_as_f32(area.val),
                        corners_dst[1][1], corners_dst[2][1],
                        corners_dst[3][1], corners_dst[4][1]),
              WarpCoord(u32_as_f32(coef_tl.val), u32_as_f32(coef_tr.val),
                        u32_as_f32(coef_bl.val), u32_as_f32(coef_br.val),
                        u32_as_f32(area.val),
                        corners_dst[1][2], corners_dst[2][2],
                        corners_dst[3][2], corners_dst[4][2])>>)

WarpProducts(coefs, tl, tr, bl, br, wide, high, area, corners_dst) ==
    WarpBlend(FirstPanic(coefs \o <<tl, tr, bl, br, wide, high, area>>),
              tl, tr, bl, br, area, corners_dst)

\* lines 156-165: the integer coefficients, in the order the code computes them.
WarpCoefs(coef_left, coef_right, coef_top, coef_bot, wide, high, corners_dst, checks) ==
    WarpProducts(<<coef_left, coef_right, coef_top, coef_bot>>,
                 MulR(coef_top, coef_left, checks),
                 MulR(coef_top, coef_right, checks),
                 MulR(coef_bot, coef_left, checks),
                 MulR(coef_bot, coef_right, checks),
                 wide, high, MulR(wide, high, checks), corners_dst)

\* lines 144-176
bilinear_warp(top_left_corner, bot_right_corner, corners_dst, src_pos, checks) ==
    WarpCoefs(u32_sub(bot_right_corner[1], src_pos[1], checks),
              u32_sub(src_pos[1], top_left_corner[1], checks),
              u32_sub(bot_right_corner[2], src_pos[2], checks),
              u32_sub(src_pos[2], top_left_corner[2], checks),
              u32_sub(bot_right_corner[1], top_left_corner[1], checks),
              u32_sub(bot_right_corner[2], top_left_corner[2], checks),
              corners_dst, checks)

\* lines 130-136: the four anchors around the block, then the blend.
SparseCorners(top_left_corner, bot_right_corner, c_tl, c_tr, c_bl, c_br, x, y, checks) ==
    IF IsPanic(c_tl) THEN c_tl
    ELSE IF IsPanic(c_tr) THEN c_tr
    ELSE IF IsPanic(c_bl) THEN c_bl
    ELSE IF IsPanic(c_br) THEN c_br
    ELSE bilinear_warp(top_left_corner, bot_right_corner,
                       <<c_tl.val, c_tr.val, c_bl.val, c_br.val>>, <<x, y>>, checks)

\* lines 124-127: the bottom right corner of the block.
SparseBlock(anchors, sub_left, sub_top, left, top, right, bottom, x, y, checks) ==
    IF IsPanic(right) THEN right
    ELSE IF IsPanic(bottom) THEN bottom
    ELSE SparseCorners(<<left, top>>, <<right.val, bottom.val>>,
                       Index2(anchors, sub_top, sub_left),
                       Index2(anchors, sub_top, sub_left + 1),
                       Index2(anchors, sub_top + 1, sub_left),
                       Index2(anchors, sub_top + 1, sub_left + 1),
                       x, y, checks)

\* lines 120-123: the top left corner of the block.
SparseOrigin(anchors, subresolution_factor, sub_left, sub_top, left, top, x, y, checks) ==
    IF IsPanic(left) THEN left
    ELSE IF IsPanic(top) THEN top
    ELSE SparseBlock(anchors, sub_left, sub_top, left.val, top.val,
                     u32_add(left.val, subresolution_factor, checks),
                     u32_add(top.val, subresolution_factor, checks),
                     x, y, checks)

\* lines 118-119: the block of pixel (x, y).
SparseSub(anchors, subresolution_factor, sub_left, sub_top, x, y, checks) ==
    IF IsPanic(sub_left) THEN sub_left
    ELSE IF IsPanic(sub_top) THEN sub_top
    ELSE SparseOrigin(anchors, subresolution_factor, sub_left.val, sub_top.val,
                      u32_mul(subresolution_factor, sub_left.val, checks),
                      u32_mul(subresolution_factor, sub_top.val, checks),
                      x, y, checks)

\* The locals of the pixel closure and of bilinear_warp for pixel (x, y), as
\* a build without overflow checks computes them; exact tells whether every
\* operation so far stayed within u32.
BlockLocals(b, coef_left, coef_right, coef_top, coef_bot, wide, high) ==
    [sub_left |-> b.sub_left, sub_top |-> b.sub_top,
     left |-> b.left, top |-> b.top, right |-> b.right, bottom |-> b.bottom,
     coef_tl |-> u32_mul(coef_top, coef_left, FALSE).val,
     coef_tr |-> u32_mul(coef_top, coef_right, FALSE).val,
     coef_bl |-> u32_mul(coef_bot, coef_left, FALSE).val,
     coef_br |-> u32_mul(coef_bot, coef_right, FALSE).val,
     area |-> u32_mul(wide, high, FALSE).val,
     exact |-> /\ b.exact
               /\ ~IsPanic(u32_mul(coef_top, coef_left, TRUE))
               /\ ~IsPanic(u32_mul(coef_top, coef_right, TRUE))
               /\ ~IsPanic(u32_mul(coef_bot, coef_left, TRUE))
               /\ ~IsPanic(u32_mul(coef_bot, coef_right, TRUE))
               /\ ~IsPanic(u32_mul(wide, high, TRUE))]

\* lines 156-159 and 168: the differences of bilinear_warp.
BlockCoefs(b, x, y) ==
    BlockLocals([b EXCEPT !.exact = /\ b.exact
                                    /\ ~IsPanic(u32_sub(b.right, x, TRUE))
                                    /\ ~IsPanic(u32_sub(x, b.left, TRUE))
                                    /\ ~IsPanic(u32_sub(b.bottom, y, TRUE))
                                    /\ ~IsPanic(u32_sub(y, b.top, TRUE))],
                u32_sub(b.right, x, FALSE).val, u32_sub(x, b.left, FALSE).val,
                u32_sub(b.bottom, y, FALSE).val, u32_sub(y, b.top, FALSE).val,
                u32_sub(b.right, b.left, FALSE).val,
                u32_sub(b.bottom, b.top, FALSE).val)

\* lines 120-127: the corners of the block.
BlockCorners(subresolution_factor, sub_left, sub_top, left, top, x, y) ==
    BlockCoefs([sub_left |-> sub_left, sub_top |-> sub_top,
                left |-> left, top |-> top,
                right |-> u32_add(left, subresolution_factor, FALSE).val,
                bottom |-> u32_add(top, subresolution_factor, FALSE).val,
                exact |-> /\ ~IsPanic(u32_mul(subresolution_factor, sub_left, TRUE))
                          /\ ~IsPanic(u32_mul(subresolution_factor, sub_top, TRUE))
                          /\ ~IsPanic(u32_add(left, subresolution_factor, TRUE))
                          /\ ~IsPanic(u32_add(top, subresolution_factor, TRUE))],
               x, y)

BlockSub(subresolution_factor, sub_left, sub_top, x, y) ==
    BlockCorners(subresolution_factor, sub_left, sub_top,
                 u32_mul(subresolution_factor, sub_left, FALSE).val,
                 u32_mul(subresolution_factor, sub_top, FALSE).val, x, y)

\* lines 118-127, 156-165 for a factor that is not zero.
Block(subresolution_factor, x, y) ==
    BlockSub(subresolution_factor, u32_div(x, subresolution_factor).val,
             u32_div(y, subresolution_factor).val, x, y)

\* lines 118-137: the source coordinate the sparse warper gives pixel (x, y).
SparseMap(anchors, subresolution_factor, x, y, checks) ==
    SparseSub(anchors, subresolution_factor,
              u32_div(x, subresolution_factor), u32_div(y, subresolution_factor),
              x, y, checks)

\* lines 117-138: the closure of reverse_sparse for pixel (x, y).
SparsePixel(img, anchors, subresolution_factor, x, y, checks) ==
    Sampled(img, SparseMap(anchors, subresolution_factor, x, y, checks), checks)

(***************************************************************************)
(* State: one call of the library, from its arguments to its outcome.      *)
(***************************************************************************)

VARIABLES
    args,             \* the call: its function and its arguments
    overflow_checks,  \* TRUE: a build that panics on integer overflow
    pc,               \* "call", "anchors", "pixels", "workers", "unwinding",
                      \* "done", "panic"
    sub,              \* reverse_sparse: <<sub_width, sub_height>>
    anchors,          \* reverse_sparse: the anchor rows computed so far
    buf,              \* the warpers: the pixels written so far, row-major
    mapped,           \* the warpers: the source coordinate of each written pixel
    deform_calls,     \* how often the deform function has been invoked
    ret,              \* the outcome: Ok(value), Some / None, or a panic
    todo,             \* the parallel generator: the chunks not yet handed out
    workers,          \* the parallel generator: the chunk each worker holds
    writes            \* the parallel generator: how often each location was written

\* The state of the thread pool, which only the parallel generator touches.
pool == <<todo, workers, writes>>

vars == <<args, overflow_checks, pc, sub, anchors, buf, mapped, deform_calls, ret,
          todo, workers, writes>>

NoRet == [tag |-> "pending", val |-> <<>>, why |-> ""]

Fresh ==
    /\ pc = "call"
    /\ sub = <<0, 0>>
    /\ anchors = <<>>
    /\ buf = <<>>
    /\ mapped = <<>>
    /\ deform_calls = 0
    /\ ret = NoRet
    /\ todo = {}
    /\ workers = <<>>
    /\ writes = <<>>

\* The state a call ends in.
Return(r) ==
    /\ ret' = r
    /\ pc' = IF IsPanic(r) THEN "panic" ELSE "done"

(***************************************************************************)
(* Calls of the point solver                                               *)
(***************************************************************************)

\* Most control points of a correspondence set drawn from the grid.
MaxPoints == 3

\* The corners of the unit square, in raster order.
GridSeq == <<<<0, 0>>, <<1, 0>>, <<0, 1>>, <<1, 1>>>>

Pt(a, b) == <<F(a), F(b)>>

\* The control point sets: up to MaxPoints grid corners listed in raster order,
\* repeats included.
SourceSets ==
    UNION {
      { [i \in 1..n |-> Pt(GridSeq[ix[i]][1], GridSeq[ix[i]][2])] :
          ix \in { f \in [1..n -> 1..Len(GridSeq)] :
                     \A i \in 1..n, j \in 1..n : i < j => f[i] <= f[j] } } :
      n \in 0..MaxPoints }

\* The destination sets a source set is paired with.
Displaced(P, how) ==
    CASE how = "same" -> P
      [] how = "scale" ->
            [i \in 1..Len(P) |-> <<f32_mul(F(2), P[i][1]), f32_mul(F(2), P[i][2])>>]
      [] how = "fan" ->
            [i \in 1..Len(P) |-> <<f32_add(P[i][1], F(i)), P[i][2]>>]
      [] how = "short" -> IF P = <<>> THEN P ELSE SubSeq(P, 1, Len(P) - 1)
      [] how = "long" -> Append(P, Pt(3, 3))

Displacements == {"same", "scale", "fan", "short", "long"}

\* The query points: the grid corners and points off the grid.
QueryPoints ==
    { Pt(GridSeq[i][1], GridSeq[i][2]) : i \in 1..Len(GridSeq) }
      \cup { <<FRat(1, 2), FRat(1, 2)>>, <<F(2), FRat(1, 2)>> }

\* The unit square and its 2x scaling.
UnitSquare == [i \in 1..4 |-> Pt(GridSeq[i][1], GridSeq[i][2])]
DoubleSquare == Displaced(UnitSquare, "scale")

\* The control points of the round trip: (0,0), (10,0), (0,10).
RoundTripControls == <<Pt(0, 0), Pt(10, 0), Pt(0, 10)>>

DeformArgs(P, Q, v) ==
    [fn |-> "deform", controls_p |-> P, controls_q |-> Q, point |-> v]

\* Correspondence sets off the grid: a source point within underflow distance
\* of another (2^-77, whose square is below the smallest subnormal), and a
\* source point with a NaN coordinate.
SpecialPairs ==
    { <<<<<<Fin(0, -100, 8388608), F(0)>>, Pt(0, 0)>>, <<Pt(1, 0), Pt(2, 0)>>>>,
      <<<<<<NaN, F(0)>>, Pt(0, 0)>>, <<Pt(1, 0), Pt(2, 0)>>>>,
      <<UnitSquare, DoubleSquare>>,
      <<RoundTripControls, RoundTripControls>> }

InitDeform ==
    /\ \/ \E P \in SourceSets, how \in Displacements, v \in QueryPoints :
             args = DeformArgs(P, Displaced(P, how), v)
       \/ \E c \in SpecialPairs, v \in QueryPoints :
             args = DeformArgs(c[1], c[2], v)
    /\ overflow_checks \in BOOLEAN
    /\ Fresh

CallDeform(kind) ==
    /\ pc = "call"
    /\ args.fn = "deform"
    /\ Return(deform(kind, args.controls_p, args.controls_q, args.point))
    /\ args' = [args EXCEPT !.fn = kind]
    /\ deform_calls' = deform_calls + 1
    /\ UNCHANGED <<overflow_checks, sub, anchors, buf, mapped>>
    /\ UNCHANGED pool

CallAffine == CallDeform("affine")
CallSimilarity == CallDeform("similarity")
CallRigid == CallDeform("rigid")

NextDeform == CallAffine \/ CallSimilarity \/ CallRigid

SpecDeform == InitDeform /\ [][NextDeform]_vars

(***************************************************************************)
(* Properties of the point solver, checked under SpecDeform                *)
(***************************************************************************)

\* A deform function has been called and has ended.
Deformed == pc # "call" /\ args.fn \in {"affine", "similarity", "rigid"}

EqualLengths ==
    /\ Len(args.controls_p) = Len(args.controls_q)
    /\ Len(args.controls_p) >= 1

FinitePoint(p) == is_finite(p[1]) /\ is_finite(p[2])

\* The weight the solver gives control point p for the query v is infinite.
InfiniteWeight(p, v) ==
    is_infinite(f32_div(F(1), sqr_norm(PointSub(PointFrom(p), PointFrom(v)))))

\* The first control point with an infinite weight for the query v.
FirstInfinite(P, v) ==
    CHOOSE j \in 1..Len(P) :
        /\ InfiniteWeight(P[j], v)
        /\ \A k \in 1..(j - 1) : ~InfiniteWeight(P[k], v)

\* C1 as stated: for sets of equal length >= 1, the query of a control point
\* P[i] returns exactly Q[i], for every index i.
C1_ReturnsOwnDestination ==
    (Deformed /\ EqualLengths) =>
        \A i \in 1..Len(args.controls_p) :
            args.controls_p[i] = args.point => ret = Ok(args.controls_q[i])

\* C1 amended: for sets of equal length >= 1 with finite coordinates, the query
\* of a control point P[i] returns exactly Q[j], j the first index whose weight
\* for P[i] is infinite (P[j] equal to P[i], or within underflow distance of it).
C1_ReturnsFirstCoincident ==
    (Deformed /\ EqualLengths
        /\ \A k \in 1..Len(args.controls_p) : FinitePoint(args.controls_p[k])) =>
        \A i \in 1..Len(args.controls_p) :
            args.controls_p[i] = args.point =>
                ret = Ok(args.controls_q[FirstInfinite(args.controls_p, args.point)])

\* A control point other than the first was queried and its own, displaced
\* destination came back.
C1_Witness ==
    /\ Deformed /\ EqualLengths
    /\ \E i \in 2..Len(args.controls_p) :
          /\ args.controls_p[i] = args.point
          /\ args.controls_p[1] # args.point
          /\ args.controls_q[i] # args.point
          /\ ret = Ok(args.controls_q[i])

\* |a - b| <= 2^-16
Close(a, b) ==
    /\ is_finite(a) /\ is_finite(b)
    /\ f32_le(f32_sub(a, b), FRat(1, 65536))
    /\ f32_le(f32_sub(b, a), FRat(1, 65536))

ClosePoint(p, q) == Close(p[1], q[1]) /\ Close(p[2], q[2])

\* The control points of P that differ from its first one.
OffFirst(P) == { i \in 1..Len(P) : P[i] # P[1] }

\* Three of the control points are not on one line.
NonCollinear(P) ==
    \E i \in 1..Len(P), j \in 1..Len(P), k \in 1..Len(P) :
        ~IsZero(det([m11 |-> f32_sub(P[j][1], P[i][1]), m12 |-> f32_sub(P[j][2], P[i][2]),
                     m21 |-> f32_sub(P[k][1], P[i][1]), m22 |-> f32_sub(P[k][2], P[i][2])]))

\* The control points determine the transform of the kind called.
Determined ==
    IF args.fn = "affine" THEN NonCollinear(args.controls_p)
    ELSE args.controls_p # <<>> /\ OffFirst(args.controls_p) # {}

\* C2 as stated: with P == Q every deform function returns the query point,
\* up to floating-point tolerance.
C2_IdentityAlways ==
    (Deformed /\ args.controls_p = args.controls_q) =>
        /\ ret.tag = "ok"
        /\ ClosePoint(ret.val, args.point)

\* C2 amended: with P == Q, finite, every deform function returns the query
\* point up to floating-point tolerance when P determines the transform: three
\* control points not on one line for deform_affine, two distinct control
\* points for deform_similarity and deform_rigid.
C2_IdentityWhenDetermined ==
    (Deformed /\ args.controls_p = args.controls_q /\ Determined
        /\ \A k \in 1..Len(args.controls_p) : FinitePoint(args.controls_p[k])) =>
        /\ ret.tag = "ok"
        /\ ClosePoint(ret.val, args.point)

\* deform_affine returned a query off every control point, with P == Q.
C2_Witness ==
    /\ Deformed /\ args.fn = "affine"
    /\ args.controls_p = args.controls_q /\ Determined
    /\ \A k \in 1..Len(args.controls_p) : args.controls_p[k] # args.point
    /\ ret.tag = "ok"
    /\ ClosePoint(ret.val, args.point)

\* C6 as stated: control point arrays of different lengths, or empty ones, end
\* the call in an error and never in a computed point.
C6_InvalidControlsRejected ==
    (Deformed /\ ~EqualLengths) => ret.tag = "panic"

\* C10: deform_affine from the unit square to its double maps (0.5, 0.5) to
\* (1.0, 1.0).
C10_UnitSquareDoubled ==
    (Deformed /\ args.fn = "affine"
        /\ args.controls_p = UnitSquare /\ args.controls_q = DoubleSquare
        /\ args.point = <<FRat(1, 2), FRat(1, 2)>>) =>
        ret = Ok(<<F(1), F(1)>>)

C10_Witness ==
    /\ Deformed /\ args.fn = "affine"
    /\ args.controls_p = <<Pt(0, 0), Pt(1, 0), Pt(0, 1), Pt(1, 1)>>
    /\ args.controls_q = <<Pt(0, 0), Pt(2, 0), Pt(0, 2), Pt(2, 2)>>
    /\ args.point = <<FRat(1, 2), FRat(1, 2)>>
    /\ ret = Ok(<<F(1), F(1)>>)

\* The locals mu, m_sum and m of the call that has ended, when it computed them.
Locals == local_matrix(args.fn, args.controls_p, args.controls_q, args.point)

\* deform_similarity or deform_rigid has ended.
MatrixCall ==
    /\ Deformed /\ args.fn \in {"similarity", "rigid"}
    /\ ret.tag = "ok"

\* m11 == m22 and m21 == -m12, compared as f32.
RotationScale(m) == f32_eq(m.m11, m.m22) /\ f32_eq(m.m21, f32_neg(m.m12))

NoNaN(m) == ~is_nan(m.m11) /\ ~is_nan(m.m12) /\ ~is_nan(m.m21) /\ ~is_nan(m.m22)

\* The call went past its infinite w_sum branch and its matrix has the form.
ShearFree(l, always) ==
    (l.tag = "some" /\ (always \/ NoNaN(l.val.m))) => RotationScale(l.val.m)

\* C11 as stated: for every correspondence set (of equal length >= 1) and
\* query point the matrix M that deform_similarity and deform_rigid apply has
\* m11 == m22 and m21 == -m12.
C11_NoShearAlways == (MatrixCall /\ EqualLengths) => ShearFree(Locals, TRUE)

\* C11 amended: the matrix M that deform_similarity and deform_rigid apply has
\* m11 == m22 and m21 == -m12 whenever none of its entries is NaN.
C11_NoShearUnlessNaN == MatrixCall => ShearFree(Locals, FALSE)

Turning(l) ==
    /\ l.tag = "some"
    /\ is_finite(l.val.m.m12) /\ ~IsZero(l.val.m.m12)
    /\ is_finite(l.val.m.m11) /\ ~IsZero(l.val.m.m11)
    /\ RotationScale(l.val.m)

\* A matrix with a rotation part was applied: m12 is finite and not zero.
C11_Witness == MatrixCall /\ Turning(Locals)

\* A finite, non-zero mu_r and a finite sum M.
NonDegenerate(l) ==
    /\ l.tag = "some"
    /\ is_finite(l.val.mu) /\ ~IsZero(l.val.mu)
    /\ is_finite(l.val.m_sum.m11) /\ is_finite(l.val.m_sum.m12)
    /\ is_finite(l.val.m_sum.m21) /\ is_finite(l.val.m_sum.m22)

\* deform_rigid has ended on a correspondence set of equal length >= 1.
RigidCall == MatrixCall /\ args.fn = "rigid" /\ EqualLengths

\* m11^2 + m12^2
RowNorm(m) == f32_add(f32_mul(m.m11, m.m11), f32_mul(m.m12, m.m12))

UnitScaleExact(l) ==
    NonDegenerate(l) =>
        /\ f32_eq(f32_mul(l.val.mu, l.val.mu), RowNorm(l.val.m_sum))
        /\ f32_eq(det(l.val.m), F(1))
        /\ f32_eq(RowNorm(l.val.m), F(1))

UnitScaleRounded(l) ==
    NonDegenerate(l) =>
        /\ Close(f32_div(f32_mul(l.val.mu, l.val.mu), RowNorm(l.val.m_sum)), F(1))
        /\ Close(det(l.val.m), F(1))
        /\ Close(RowNorm(l.val.m), F(1))

\* C12 as stated: for a non-degenerate set mu_r^2 equals m11^2 + m12^2 of the
\* sum M, and the matrix (1 / mu_r) * M that deform_rigid applies has
\* determinant 1 and rows of length 1.
C12_UnitScaleExact == RigidCall => UnitScaleExact(Locals)

\* C12 amended: the same up to floating-point rounding: the determinant and
\* the squared row length of the applied matrix are within 2^-16 of 1, and
\* mu_r^2 / (m11^2 + m12^2) is within 2^-16 of 1.
C12_UnitScaleRounded == RigidCall => UnitScaleRounded(Locals)

TurningUnit(l) ==
    /\ NonDegenerate(l)
    /\ ~IsZero(l.val.m.m12) /\ ~IsZero(l.val.m.m11)
    /\ ~f32_eq(l.val.mu, F(1))
    /\ Close(det(l.val.m), F(1))

\* deform_rigid applied a matrix that turns, normalised by a mu_r other than 1.
C12_Witness == RigidCall /\ TurningUnit(Locals)

\* The indices of the control points whose weight for the query is infinite.
InfiniteIndices(P, v) == { j \in 1..Len(P) : InfiniteWeight(P[j], v) }

\* Several weights are infinite, and so is their sum (no weight is NaN).
SeveralCoincide(P, v) ==
    /\ Cardinality(InfiniteIndices(P, v)) >= 2
    /\ is_infinite(SumF32(Weights(P, PointFrom(v))))

\* The smallest element of a non-empty set of indices.
Smallest(S) == CHOOSE j \in S : \A k \in S : j <= k

\* C13: when several control points coincide with the query point (several
\* weights are infinite, and with them their sum), every deform function
\* returns the destination point of the smallest such index.
C13_FirstMatchWins ==
    (Deformed /\ EqualLengths /\ SeveralCoincide(args.controls_p, args.point)) =>
        ret = Ok(args.controls_q[Smallest(InfiniteIndices(args.controls_p, args.point))])

\* Two coincident control points with different destinations were queried
\* and the destination of the first one came back.
C13_Witness ==
    /\ Deformed /\ EqualLengths
    /\ \E i \in 1..Len(args.controls_p), j \in 1..Len(args.controls_p) :
          /\ i < j
          /\ args.controls_p[i] = args.point /\ args.controls_p[j] = args.point
          /\ \A k \in 1..(i - 1) : args.controls_p[k] # args.point
          /\ args.controls_q[i] # args.controls_q[j]
          /\ ret = Ok(args.controls_q[i])

(***************************************************************************)
(* Calls of the warpers                                                    *)
(***************************************************************************)

\* Largest width and height of a source raster.
MaxWidth == 3
MaxHeight == 3
\* Largest subresolution factor passed to reverse_sparse.
MaxFactor == 2
\* Largest side of an anchor grid that is unrolled anchor by anchor.
MaxSub == 8

\* The pixel of column x, row y of a source raster: never the background.
PixelOf(x, y) == <<40 * x + 10, 40 * y + 20, 200>>

\* RgbImage of the given dimensions, row-major.
Raster(w, h) ==
    [width |-> w, height |-> h,
     data |-> [i \in 1..(w * h) |-> PixelOf((i - 1) % w, (i - 1) \div w)]]

Rasters == { Raster(w, h) : w \in 0..MaxWidth, h \in 0..MaxHeight }

\* The (controls_src, controls_dst) pairs the warpers are called with.
ControlPairs ==
    { <<RoundTripControls, RoundTripControls>>,
      <<<<Pt(0, 0)>>, <<Pt(0, 0)>>>>,
      <<<<Pt(5, 0)>>, <<Pt(0, 0)>>>>,
      <<UnitSquare, DoubleSquare>>,
      <<<<>>, <<>>>>,
      <<<<Pt(0, 0)>>, <<Pt(0, 0), Pt(1, 0)>>>> }

Kinds == {"affine", "similarity", "rigid"}

DenseArgs(img, controls_src, controls_dst, kind) ==
    [fn |-> "reverse_dense", img_src |-> img,
     controls_src |-> controls_src, controls_dst |-> controls_dst,
     deform_function |-> kind]

SparseArgs(img, controls_src, controls_dst, factor, kind) ==
    [fn |-> "reverse_sparse", img_src |-> img,
     controls_src |-> controls_src, controls_dst |-> controls_dst,
     subresolution_factor |-> factor, deform_function |-> kind]

\* The factors of the calls: the small ones, and 2^16, the smallest factor
\* whose square is no u32.
Factors == (0..MaxFactor) \cup {Pow2(16)}

\* A side of the anchor grid is within the bound MaxSub; a call that panics
\* at lines 100-101 has no grid.
WithinMaxSub(size) ==
    IF IsPanic(size) THEN TRUE ELSE 0 <= size.val /\ size.val <= MaxSub

\* The calls of reverse_dense of the model.
InitDense ==
    \E img \in Rasters, c \in ControlPairs, kind \in Kinds :
       args = DenseArgs(img, c[1], c[2], kind)

\* The calls of reverse_sparse of the model: those whose anchor grid has no
\* side above MaxSub.
InitSparse(checks) ==
    \E img \in Rasters, c \in ControlPairs, kind \in Kinds, factor \in Factors :
       /\ WithinMaxSub(SubSize(img.width, factor, checks))
       /\ WithinMaxSub(SubSize(img.height, factor, checks))
       /\ args = SparseArgs(img, c[1], c[2], factor, kind)

InitWarp ==
    /\ \E checks \in BOOLEAN :
          /\ overflow_checks = checks
          /\ InitDense \/ InitSparse(checks)
    /\ Fresh

\* reverse_dense, lines 62-63: nothing is computed before the pixel loop.
DenseStart ==
    /\ pc = "call"
    /\ args.fn = "reverse_dense"
    /\ pc' = "pixels"
    /\ UNCHANGED <<args, overflow_checks, sub, anchors, buf, mapped, deform_calls, ret>>
    /\ UNCHANGED pool

\* lines 100-101 done: on to the anchors.
SizedSparse(sub_width, sub_height) ==
    IF IsPanic(sub_width) THEN Return(sub_width) /\ UNCHANGED sub
    ELSE IF IsPanic(sub_height) THEN Return(sub_height) /\ UNCHANGED sub
    ELSE /\ sub' = <<sub_width.val, sub_height.val>>
         /\ pc' = "anchors"
         /\ UNCHANGED ret

\* reverse_sparse, lines 96-101.
SparseStart ==
    /\ pc = "call"
    /\ args.fn = "reverse_sparse"
    /\ SizedSparse(SubSize(args.img_src.width, args.subresolution_factor, overflow_checks),
                   SubSize(args.img_src.height, args.subresolution_factor, overflow_checks))
    /\ UNCHANGED <<args, overflow_checks, anchors, buf, mapped, deform_calls>>
    /\ UNCHANGED pool

\* The row of anchors being collected is not full yet.
RowOpen == anchors # <<>> /\ Len(anchors[Len(anchors)]) < sub[1]

StartedRow(y) ==
    IF IsPanic(y) THEN Return(y) /\ UNCHANGED anchors
    ELSE anchors' = Append(anchors, <<>>) /\ UNCHANGED <<pc, ret>>

\* lines 105-106: the next row of anchors starts with its y.
RowStart ==
    /\ pc = "anchors"
    /\ ~RowOpen
    /\ Len(anchors) < sub[2]
    /\ StartedRow(AnchorRow(args.subresolution_factor, Len(anchors), overflow_checks))
    /\ UNCHANGED <<args, overflow_checks, sub, buf, mapped, deform_calls>>
    /\ UNCHANGED pool

CollectedAnchor(x, anchor) ==
    IF IsPanic(x) THEN Return(x) /\ UNCHANGED <<anchors, deform_calls>>
    ELSE /\ deform_calls' = deform_calls + 1
         /\ IF IsPanic(anchor) THEN Return(anchor) /\ UNCHANGED anchors
            ELSE /\ anchors' = [anchors EXCEPT ![Len(anchors)] = Append(@, anchor.val)]
                 /\ UNCHANGED <<pc, ret>>

\* lines 107-112: the next anchor of the open row.
AnchorStep ==
    /\ pc = "anchors"
    /\ RowOpen
    /\ CollectedAnchor(
          u32_mul(Len(anchors[Len(anchors)]), args.subresolution_factor, overflow_checks),
          Anchor(args.controls_src, args.controls_dst, args.deform_function,
                 args.subresolution_factor, Len(anchors[Len(anchors)]),
                 AnchorRow(args.subresolution_factor, Len(anchors) - 1, overflow_checks).val,
                 overflow_checks))
    /\ UNCHANGED <<args, overflow_checks, sub, buf, mapped>>
    /\ UNCHANGED pool

\* The pixel pass starting as soon as a row of anchors is closed.
AnchorsDoneEarly ==
    /\ pc = "anchors"
    /\ ~RowOpen
    /\ pc' = "pixels"
    /\ UNCHANGED <<args, overflow_checks, sub, anchors, buf, mapped, deform_calls, ret>>
    /\ UNCHANGED pool

\* line 114: the grid is collected.
AnchorsDone ==
    /\ pc = "anchors"
    /\ ~RowOpen
    /\ Len(anchors) = sub[2]
    /\ pc' = "pixels"
    /\ UNCHANGED <<args, overflow_checks, sub, anchors, buf, mapped, deform_calls, ret>>
    /\ UNCHANGED pool

\* The pixel closure of either warper: the mapped coordinate d, then its sample.
WrittenPixel(d, sample) ==
    IF IsPanic(d) THEN Return(d) /\ UNCHANGED <<buf, mapped>>
    ELSE /\ mapped' = Append(mapped, d.val)
         /\ IF IsPanic(sample) THEN Return(sample) /\ UNCHANGED buf
            ELSE buf' = Append(buf, sample.val) /\ UNCHANGED <<pc, ret>>

MappedPixel(d) == WrittenPixel(d, Sampled(args.img_src, d, overflow_checks))

\* RgbImage::from_fn (lines 16-21): the pixels in row-major order, each from
\* the closure of lines 64-68 or 117-138.
PixelStep ==
    /\ pc = "pixels"
    /\ Len(buf) < args.img_src.width * args.img_src.height
    /\ IF args.fn = "reverse_dense"
       THEN /\ MappedPixel(DenseMap(args.controls_src, args.controls_dst,
                                    args.deform_function,
                                    Len(buf) % args.img_src.width,
                                    Len(buf) \div args.img_src.width))
            /\ deform_calls' = deform_calls + 1
       ELSE /\ MappedPixel(SparseMap(anchors, args.subresolution_factor,
                                     Len(buf) % args.img_src.width,
                                     Len(buf) \div args.img_src.width,
                                     overflow_checks))
            /\ UNCHANGED deform_calls
    /\ UNCHANGED <<args, overflow_checks, sub, anchors>>
    /\ UNCHANGED pool

\* The raster is returned once every pixel is written.
Finish ==
    /\ pc = "pixels"
    /\ Len(buf) = args.img_src.width * args.img_src.height
    /\ Return(Ok([width |-> args.img_src.width, height |-> args.img_src.height,
                  data |-> buf]))
    /\ UNCHANGED <<args, overflow_checks, sub, anchors, buf, mapped, deform_calls>>
    /\ UNCHANGED pool

NextWarp ==
    \/ DenseStart
    \/ SparseStart
    \/ RowStart
    \/ AnchorStep
    \/ AnchorsDone
    \/ PixelStep
    \/ Finish

SpecWarp == InitWarp /\ [][NextWarp]_vars

(***************************************************************************)
(* Properties of the warpers, checked under SpecWarp                       *)
(***************************************************************************)

DenseDone == pc = "done" /\ args.fn = "reverse_dense"

\* C3 as stated: reverse_dense with the control points (0,0), (10,0), (0,10)
\* as source and as destination returns a raster equal to the input raster.
C3_RoundTripUnchanged ==
    (DenseDone /\ args.controls_src = RoundTripControls
               /\ args.controls_dst = RoundTripControls) =>
        ret.val = args.img_src

\* C4 as stated: reverse_sparse with subresolution_factor = 1 ends as
\* reverse_dense does on the same inputs, with the same raster.
C4_SparseOneIsDense ==
    (pc \in {"done", "panic"} /\ args.fn = "reverse_sparse"
        /\ args.subresolution_factor = 1) =>
        IF IsPanic(reverse_dense(args.img_src, args.controls_src, args.controls_dst,
                                 args.deform_function, overflow_checks))
        THEN pc = "panic"
        ELSE ret = reverse_dense(args.img_src, args.controls_src, args.controls_dst,
                                 args.deform_function, overflow_checks)

\* The coordinate c lies outside [0, width) x [0, height); NaN is outside.
OutsideRaster(img, c) ==
    ~(/\ f32_ge(c[1], F(0)) /\ f32_lt(c[1], F(img.width))
      /\ f32_ge(c[2], F(0)) /\ f32_lt(c[2], F(img.height)))

\* C5 as stated: every pixel whose mapped source coordinate lies outside the
\* raster is written as the background pixel, without a panic.
C5_OutsideIsBackground ==
    args.fn \in {"reverse_dense", "reverse_sparse"} =>
        \A i \in 1..Len(mapped) :
            OutsideRaster(args.img_src, mapped[i]) =>
                /\ i <= Len(buf)
                /\ buf[i] = color_outside

\* C7: reverse_sparse with subresolution_factor = 0 ends in an error before
\* any anchor is evaluated and before any pixel is produced.
C7_ZeroFactorRejected ==
    (args.fn = "reverse_sparse" /\ args.subresolution_factor = 0) =>
        /\ pc \in {"call", "panic"}
        /\ pc = "panic" => ret.tag = "panic"
        /\ deform_calls = 0
        /\ anchors = <<>>
        /\ buf = <<>>

\* The division of line 100 by a zero factor ended the call.
C7_Witness ==
    /\ args.fn = "reverse_sparse" /\ args.subresolution_factor = 0
    /\ args.img_src.width >= 3
    /\ pc = "panic"
    /\ ret = Panicked("attempt to divide by zero")
    /\ deform_calls = 0

\* The solver's image of pixel (x, y) with the control point roles swapped.
SwappedMap(x, y) ==
    deform(args.deform_function, args.controls_dst, args.controls_src,
           <<F(x), F(y)>>)

\* The bilinear sample of the source at the coordinate d, or the background.
SampleOrBackground(d) ==
    IF bilinear(args.img_src, d[1], d[2], overflow_checks).tag = "some"
    THEN bilinear(args.img_src, d[1], d[2], overflow_checks).val
    ELSE color_outside

\* C8: the raster reverse_dense returns has the dimensions of the source, and
\* its pixel (x, y) is the bilinear sample of the source at
\* deform(controls_dst, controls_src, (x, y)), or the background colour when
\* that sample has no value.
C8_DenseSamplesSwapped ==
    DenseDone =>
        /\ ret.val.width = args.img_src.width
        /\ ret.val.height = args.img_src.height
        /\ Len(ret.val.data) = args.img_src.width * args.img_src.height
        /\ \A x \in 0..(args.img_src.width - 1), y \in 0..(args.img_src.height - 1) :
              /\ SwappedMap(x, y).tag = "ok"
              /\ ret.val.data[y * args.img_src.width + x + 1]
                    = SampleOrBackground(SwappedMap(x, y).val)

\* A returned raster with an interpolated pixel off its own coordinate and a
\* background pixel.
C8_Witness ==
    /\ DenseDone
    /\ args.controls_src # args.controls_dst
    /\ \E i \in 1..Len(buf) :
          /\ ret.val.data[i] # color_outside
          /\ mapped[i] # <<F((i - 1) % args.img_src.width),
                           F((i - 1) \div args.img_src.width)>>
    /\ \E j \in 1..Len(buf) : ret.val.data[j] = color_outside

\* reverse_sparse has just collected its anchors (line 114), for a raster of
\* at least one pixel and a factor of at least 1.
GridBuilt ==
    /\ args.fn = "reverse_sparse"
    /\ pc = "pixels" /\ buf = <<>>
    /\ args.img_src.width >= 1 /\ args.img_src.height >= 1
    /\ args.subresolution_factor >= 1

\* The anchors form a grid of the given numbers of columns and rows.
GridIs(cols, rows) ==
    /\ Len(anchors) = rows
    /\ \A v \in 1..Len(anchors) : Len(anchors[v]) = cols

\* The anchor at grid position (u, v) is the solver's result for the pixel
\* coordinate (u * factor, v * factor).
AnchorsSolved ==
    \A v \in 1..Len(anchors) : \A u \in 1..Len(anchors[v]) :
        anchors[v][u] =
            deform(args.deform_function, args.controls_dst, args.controls_src,
                   <<F((u - 1) * args.subresolution_factor),
                     F((v - 1) * args.subresolution_factor)>>).val

\* a / b rounded up or down, for a >= 0 and b >= 1.
Quotient(a, b, up) == IF up THEN (a + b - 1) \div b ELSE a \div b

GridOf(up) ==
    /\ GridIs(Quotient(args.img_src.width - 1, args.subresolution_factor, up) + 2,
              Quotient(args.img_src.height - 1, args.subresolution_factor, up) + 2)
    /\ AnchorsSolved

\* C14 as stated: the anchor grid has ceil((width-1)/factor)+2 columns and
\* ceil((height-1)/factor)+2 rows, and the anchor at (u, v) is the solver's
\* result for the pixel coordinate (u*factor, v*factor).
C14_GridRoundedUp == GridBuilt => GridOf(TRUE)

\* C14 amended: the anchor grid has floor((width-1)/factor)+2 columns and
\* floor((height-1)/factor)+2 rows, and the anchor at (u, v) is the solver's
\* result for the pixel coordinate (u*factor, v*factor).
C14_GridRoundedDown == GridBuilt => GridOf(FALSE)

\* A grid of 2 x 2 anchors spaced 2 pixels apart was built for a raster 2
\* pixels wide, the last anchor a finite point other than its own coordinate.
C14_Witness ==
    /\ GridBuilt
    /\ args.subresolution_factor = 2
    /\ args.img_src.width = 2 /\ args.img_src.height = 2
    /\ GridIs(2, 2)
    /\ is_finite(anchors[2][2][1]) /\ is_finite(anchors[2][2][2])
    /\ anchors[2][2] # <<F(2), F(2)>>

\* Every anchor of the grid is there: sub_height rows of sub_width anchors,
\* each from one call of the deform function.
AnchorsComplete ==
    /\ Len(anchors) = sub[2]
    /\ \A v \in 1..Len(anchors) : Len(anchors[v]) = sub[1]
    /\ deform_calls = sub[1] * sub[2]

PixelPass == args.fn = "reverse_sparse" /\ pc = "pixels"

\* C16: in reverse_sparse the whole anchor grid is computed before the first
\* pixel is interpolated: every step of the pixel pass finds the grid
\* complete, and no step of the pixel pass changes an anchor or calls the
\* deform function.
C16_AnchorsBeforePixels ==
    [][PixelPass => /\ AnchorsComplete
                    /\ anchors' = anchors
                    /\ deform_calls' = deform_calls]_vars

\* The pixel pass of a 2x2 raster under way over a complete 3x3 grid.
C16_Witness ==
    /\ PixelPass /\ AnchorsComplete
    /\ args.subresolution_factor = 1
    /\ sub = <<3, 3>> /\ deform_calls = 9
    /\ Len(buf) = 2 /\ Len(mapped) = 2

\* The four anchors of the block are inside the grid.
InsideGrid(b) ==
    /\ b.sub_top >= 0 /\ b.sub_top + 1 < Len(anchors)
    /\ b.sub_left >= 0
    /\ b.sub_left + 1 < Len(anchors[b.sub_top + 1])
    /\ b.sub_left + 1 < Len(anchors[b.sub_top + 2])

\* left <= x < right and top <= y < bottom.
InsideBlock(b, x, y) ==
    /\ ~u32_lt(x, b.left) /\ u32_lt(x, b.right)
    /\ ~u32_lt(y, b.top) /\ u32_lt(y, b.bottom)

SumR(r, c) == IF IsPanic(r) THEN r ELSE u32_add(r.val, c, TRUE)

\* The coefficients are the products of differences that did not wrap, and
\* their sum is factor * factor.
CoefsCoverBlock(b, factor) ==
    /\ b.exact
    /\ SumR(SumR(SumR(Ok(b.coef_tl), b.coef_tr), b.coef_bl), b.coef_br)
          = u32_mul(factor, factor, TRUE)

BlockSound(b, x, y, factor) ==
    /\ InsideGrid(b)
    /\ InsideBlock(b, x, y)
    /\ CoefsCoverBlock(b, factor)

\* C17: for every image with width, height >= 1, every factor >= 1 and every
\* pixel (x, y), the four anchors read are inside the anchor grid, the pixel
\* lies inside its block, and the four bilinear_warp coefficients are
\* non-negative and sum to the block area factor^2.
C17_BlockGeometry ==
    GridBuilt =>
        \A x \in 0..(args.img_src.width - 1), y \in 0..(args.img_src.height - 1) :
           BlockSound(Block(args.subresolution_factor, x, y), x, y,
                      args.subresolution_factor)

\* The panic of a u32 operation whose result does not fit, which only a
\* build with overflow checks raises.
OverflowPanic(r) ==
    /\ IsPanic(r)
    /\ r.why \in {"attempt to subtract with overflow",
                  "attempt to add with overflow",
                  "attempt to multiply with overflow"}

SparseCall ==
    /\ args.fn = "reverse_sparse"
    /\ args.img_src.width >= 1 /\ args.img_src.height >= 1
    /\ args.subresolution_factor >= 1

\* C18: for every image with width, height >= 1 and every factor >= 1, no
\* u32 subtraction, addition or multiplication of reverse_sparse,
\* bilinear_warp or bilinear leaves 0..2^32-1: a build with overflow checks
\* never ends such a call with an overflow panic.
C18_NoOverflow ==
    (SparseCall /\ overflow_checks) => ~OverflowPanic(ret)

(***************************************************************************)
(* Calls of the pixel sampler                                              *)
(***************************************************************************)

\* The coordinates the sampler is called with: around both edges of the
\* rasters, the non-finite ones, and one beyond every u32.
Coords ==
    { NaN, Inf(0), Inf(1), f32_neg(F(0)), FRat(-1, 2), FRat(1, 2), FRat(3, 2),
      f32_mul(F(65536), F(131072)) }
      \cup { F(n) : n \in -1..(MaxWidth + 1) }

InitSample ==
    /\ \E img \in Rasters, x \in Coords, y \in Coords :
          args = [fn |-> "bilinear", img |-> img, x |-> x, y |-> y]
    /\ overflow_checks \in BOOLEAN
    /\ Fresh

CallBilinear ==
    /\ pc = "call"
    /\ args.fn = "bilinear"
    /\ Return(bilinear(args.img, args.x, args.y, overflow_checks))
    /\ UNCHANGED <<args, overflow_checks, sub, anchors, buf, mapped, deform_calls>>
    /\ UNCHANGED pool

NextSample == CallBilinear

SpecSample == InitSample /\ [][NextSample]_vars


(***************************************************************************)
(* Properties of the pixel sampler, checked under SpecSample               *)
(***************************************************************************)

SamplerReturned == pc # "call" /\ args.fn = "bilinear"

\* lo <= c <= hi, or lo <= c < hi, for integers lo and hi.
Within(c, lo, hi, closed) ==
    /\ f32_ge(c, F(lo))
    /\ IF closed THEN f32_le(c, F(hi)) ELSE f32_lt(c, F(hi))

\* C9 as stated: bilinear returns a value if and only if (x, y) lies in
\* [0, width-2] x [0, height-2], and for every coordinate outside that
\* rectangle it returns no value (None).
C9_ValueIffInClosedRectangle ==
    SamplerReturned =>
        /\ ret.tag = "some" <=>
               /\ Within(args.x, 0, args.img.width - 2, TRUE)
               /\ Within(args.y, 0, args.img.height - 2, TRUE)
        /\ ~(/\ Within(args.x, 0, args.img.width - 2, TRUE)
             /\ Within(args.y, 0, args.img.height - 2, TRUE))
              => ret.tag = "none"


-----------------------------------------------------------------------------
\* Calls of the parallel pixel generator (feature "rayon").
\*
\* The buffer is cut into chunks of three bytes, one chunk per pixel, and
\* the chunks are handed to the threads of the pool in any order.  A thread
\* holds one chunk at a time: it derives the coordinates from the index of
\* the chunk, evaluates the closure and copies the colour into the chunk.

MaxParWidth == 2
MaxParHeight == 2
MaxWorkers == 2

\* The closures the generator is called with: "paint" colours a pixel by its
\* coordinates, "faulty" does the same but panics at pixel (1, 0).
Closures == {"paint", "faulty"}

f(name, x, y) ==
    IF name = "faulty" /\ x = 1 /\ y = 0 THEN Panicked("closure panicked")
    ELSE Ok(PixelOf(x, y))

\* idx as u32: the low 32 bits of the index of the chunk.
usize_as_u32(idx) == FromLimbs(Hi16(idx), Lo16(idx))

\* Line 36 with rows and columns exchanged.
ChunkCoordsTransposed(idx, width) ==
    <<u32_div(usize_as_u32(idx), width).val, u32_rem(usize_as_u32(idx), width).val>>

\* Line 36: the coordinates of the pixel that chunk idx holds.
ChunkCoords(idx, width) ==
    <<u32_rem(usize_as_u32(idx), width).val, u32_div(usize_as_u32(idx), width).val>>

\* RgbImage::new: a buffer of black pixels.
Black == <<0, 0, 0>>

Idle == [busy |-> FALSE, idx |-> 0, x |-> 0, y |-> 0]

InitPar ==
    /\ \E w \in 0..MaxParWidth, h \in 0..MaxParHeight, name \in Closures :
          args = [fn |-> "rgb_image_from_fn", width |-> w, height |-> h, f |-> name]
    /\ overflow_checks = FALSE
    /\ Fresh

\* Lines 32-34: the buffer is allocated and cut into chunks for the pool.
ParStart ==
    /\ pc = "call"
    /\ args.fn = "rgb_image_from_fn"
    /\ buf' = [i \in 1..(args.width * args.height) |-> Black]
    /\ todo' = 0..(args.width * args.height - 1)
    /\ \E n \in 1..MaxWorkers : workers' = [k \in 1..n |-> Idle]
    /\ writes' = [i \in 1..(args.width * args.height) |-> 0]
    /\ pc' = "workers"
    /\ UNCHANGED <<args, overflow_checks, sub, anchors, mapped, deform_calls, ret>>

\* The pool is at work: no panic yet, or a panic caught that waits for the
\* jobs of the other threads.
AtWork == pc \in {"workers", "unwinding"}

\* Lines 34-36: an idle thread is handed a chunk and derives its coordinates.
Take(k) ==
    /\ AtWork
    /\ ~workers[k].busy
    /\ \E idx \in todo :
          /\ workers' = [workers EXCEPT ![k] =
                [busy |-> TRUE, idx |-> idx,
                 x |-> ChunkCoords(idx, args.width)[1],
                 y |-> ChunkCoords(idx, args.width)[2]]]
          /\ todo' = todo \ {idx}
    /\ UNCHANGED <<args, overflow_checks, pc, sub, anchors, buf, mapped,
                   deform_calls, ret, writes>>

\* Lines 37-39: the thread evaluates the closure and fills its chunk.  A
\* panic of the closure unwinds the job of this thread only: the chunks that
\* follow in the same job (idx + 1 .. last, none of them handed out) are
\* never filled, the pool catches the panic and the other jobs go on.
WriteChunk(k, colour) ==
    IF IsPanic(colour)
    THEN /\ pc' = "unwinding"
         /\ ret' = IF pc = "unwinding" THEN ret ELSE colour
         /\ \E last \in workers[k].idx..(args.width * args.height - 1) :
               /\ (workers[k].idx + 1)..last \subseteq todo
               /\ todo' = todo \ ((workers[k].idx + 1)..last)
         /\ workers' = [workers EXCEPT ![k] = Idle]
         /\ UNCHANGED <<buf, writes>>
    ELSE /\ buf' = [buf EXCEPT ![workers[k].idx + 1] = colour.val]
         /\ writes' = [writes EXCEPT ![workers[k].idx + 1] = @ + 1]
         /\ workers' = [workers EXCEPT ![k] = Idle]
         /\ UNCHANGED <<pc, ret, todo>>

Write(k) ==
    /\ AtWork
    /\ workers[k].busy
    /\ WriteChunk(k, f(args.f, workers[k].x, workers[k].y))
    /\ UNCHANGED <<args, overflow_checks, sub, anchors, mapped, deform_calls>>

\* for_each ends by unwinding: every job has ended, one of them by a panic,
\* which now reaches the caller.
Unwind ==
    /\ pc = "unwinding"
    /\ todo = {}
    /\ \A k \in DOMAIN workers : ~workers[k].busy
    /\ pc' = "panic"
    /\ UNCHANGED <<args, overflow_checks, sub, anchors, buf, mapped, deform_calls, ret>>
    /\ UNCHANGED pool

\* Line 41: every chunk has been filled and the buffer is returned.
Join ==
    /\ pc = "workers"
    /\ todo = {}
    /\ \A k \in DOMAIN workers : ~workers[k].busy
    /\ Return(Ok([width |-> args.width, height |-> args.height, data |-> buf]))
    /\ UNCHANGED <<args, overflow_checks, sub, anchors, buf, mapped, deform_calls>>
    /\ UNCHANGED pool

NextPar ==
    \/ ParStart
    \/ \E k \in DOMAIN workers : Take(k)
    \/ \E k \in DOMAIN workers : Write(k)
    \/ Join
    \/ Unwind

SpecPar == InitPar /\ [][NextPar]_vars

\* The non-parallel generator (lines 16-22) on the same arguments: pixels
\* are produced row by row.
Sequential ==
    rgb_image_from_fn(args.width, args.height,
        [i \in 1..(args.width * args.height) |->
            f(args.f, (i - 1) % args.width, (i - 1) \div args.width)])

ParRunning ==
    args.fn = "rgb_image_from_fn" /\ pc \in {"workers", "unwinding", "done", "panic"}

\* No location has been written twice.
AtMostOnce == \A i \in DOMAIN writes : writes[i] <= 1

\* No two threads hold the same chunk, and a held chunk is not yet written.
Disjoint ==
    /\ \A j, k \in DOMAIN workers :
          (j # k /\ workers[j].busy /\ workers[k].busy) => workers[j].idx # workers[k].idx
    /\ \A k \in DOMAIN workers :
          workers[k].busy => writes[workers[k].idx + 1] = 0

\* A written location holds the colour of its own coordinates.
RightColour ==
    \A i \in DOMAIN writes :
       writes[i] > 0 =>
          buf[i] = f(args.f, (i - 1) % args.width, (i - 1) \div args.width).val

\* C15: in the parallel generator, under every interleaving of the threads,
\* every pixel location is written at most once while the call runs and
\* exactly once when it returns, by one thread, with the closure's value at
\* (idx mod width, idx div width); no two threads hold the same location;
\* and the raster returned is the one the sequential generator returns.
C15_EachPixelOnce ==
    ParRunning =>
        /\ AtMostOnce
        /\ Disjoint
        /\ RightColour
        /\ pc = "done" =>
              /\ \A i \in DOMAIN writes : writes[i] = 1
              /\ ret = Sequential
        /\ pc = "panic" => ret = Sequential

\* A 2x2 raster in the making: the second pixel is written before the
\* first, and the two threads of the pool hold the last and the first chunk.
C15_Witness ==
    /\ args.fn = "rgb_image_from_fn" /\ pc = "workers"
    /\ args.width = 2 /\ args.height = 2
    /\ Len(workers) = 2
    /\ workers[1].busy /\ workers[1].idx = 3 /\ workers[1].x = 1 /\ workers[1].y = 1
    /\ workers[2].busy /\ workers[2].idx = 0
    /\ writes = <<0, 1, 0, 0>>
    /\ buf[2] = PixelOf(1, 0)

=============================================================================
